---- MODULE Spec2Model ----
(***************************************************************************)
(* Cell extraction of a triangulated arrangement                          *)
(* (include/igl/copyleft/cgal/extract_cells.cpp).                         *)
(*                                                                         *)
(* One behaviour is one call of extract_cells.  Arrays of the source are   *)
(* functions over 0..n-1 (the source indexes from 0); std::vector lists    *)
(* that are only pushed and scanned are sequences.  A failing assert and   *)
(* a throw end the call (pc = "abort", pc = "throw"): the model is the     *)
(* build in which assert is checked.  The collaborators that are not part  *)
(* of this file (unique_edge_map, extract_manifold_patches,                *)
(* facet_components, order_facets_around_edge, outer_facet, closest_facet) *)
(* are modelled by their contract, with a nondeterministic answer where    *)
(* the answer depends on exact geometry.                                   *)
(***************************************************************************)
EXTENDS Integers, Sequences, FiniteSets, TLC

\* ------------------------------------------------------------- bounds
\* Largest number of faces around the edge of a fan mesh.
MaxValence == 3
\* Largest translation (per axis) of the second tetrahedron of "twotet".
MaxShift == 5

\* ---------------------------------------------------------- constants
\* std::numeric_limits<int>::max(): the "unlabeled" cell of the peeler.
INVALID == 2147483647
\* std::numeric_limits<size_t>::max(), written as (size_t)-1.
INVALID_SZ == -1

\* ------------------------------------------------------------ helpers
Min2(a, b) == IF a < b THEN a ELSE b
Max2(a, b) == IF a < b THEN b ELSE a
SetMin(S) == CHOOSE x \in S : \A y \in S : x <= y
SetMax(S) == CHOOSE x \in S : \A y \in S : y <= x
Range(f) == {f[x] : x \in DOMAIN f}
\* A sequence (1-based) as a 0-based array.
ZeroBased(s) == [i \in 0..(Len(s) - 1) |-> s[i + 1]]
\* The elements of a set of integers as an increasing sequence.
RECURSIVE SortedSeq(_)
SortedSeq(S) == IF S = {} THEN << >>
                ELSE LET m == SetMin(S) IN << m >> \o SortedSeq(S \ {m})
\* All bijections of 0..n-1 (the possible answers of a sorting collaborator).
Perms(n) == {p \in [0..(n - 1) -> 0..(n - 1)] :
               \A a, b \in 0..(n - 1) : p[a] = p[b] => a = b}
\* Least fixpoint of S under one step of the symmetric relation adj.
RECURSIVE Closure(_, _)
Closure(S, adj) ==
    LET N == S \cup {y \in DOMAIN adj : \E x \in S : y \in adj[x]}
    IN  IF N = S THEN S ELSE Closure(N, adj)

\* F(fid, k) of the source: corner k (0..2) of face fid.
Fv(Fm, fid, k) == Fm[fid][k + 1]

\* ------------------------------------------- collaborators (topology)
\* igl::unique_edge_map: E lists the directed edge opposite corner c of
\* face f at row f + c*#F; uE are the distinct undirected edges (sorted
\* vertex pair, rows in lexicographic order); EMAP maps a row of E to its
\* row of uE; uE2E lists, per unique edge, the rows of E mapped to it.
DirectedEdges(Fm) ==
    LET m == Cardinality(DOMAIN Fm)
    IN  [e \in 0..(3 * m - 1) |->
           << Fv(Fm, e % m, ((e \div m) + 1) % 3),
              Fv(Fm, e % m, ((e \div m) + 2) % 3) >>]
SortedPair(p) == << Min2(p[1], p[2]), Max2(p[1], p[2]) >>
PairLess(p, q) == p[1] < q[1] \/ (p[1] = q[1] /\ p[2] < q[2])
PairRank(S, p) == Cardinality({q \in S : PairLess(q, p)})
UniqueEdges(Fm) ==
    LET S == {SortedPair(p) : p \in Range(DirectedEdges(Fm))}
    IN  [u \in 0..(Cardinality(S) - 1) |-> CHOOSE p \in S : PairRank(S, p) = u]
EdgeMap(Fm) ==
    LET Em == DirectedEdges(Fm)
        S == {SortedPair(p) : p \in Range(Em)}
    IN  [e \in DOMAIN Em |-> PairRank(S, SortedPair(Em[e]))]
EdgeOccurrences(Fm) ==
    LET em == EdgeMap(Fm)
    IN  [u \in DOMAIN UniqueEdges(Fm) |->
           SortedSeq({e \in DOMAIN em : em[e] = u})]

\* Faces sharing a unique edge (only edges with exactly two incident faces
\* when manifoldOnly).
FaceAdjacency(m, occ, manifoldOnly) ==
    [f \in 0..(m - 1) |->
       {g \in 0..(m - 1) :
          \E u \in DOMAIN occ :
             /\ manifoldOnly => Len(occ[u]) = 2
             /\ \E a, b \in 1..Len(occ[u]) :
                   occ[u][a] % m = f /\ occ[u][b] % m = g}]
\* Classes of faces numbered by their smallest face, as a scan over the
\* faces in increasing index hands out ids.
ClassIds(m, adj) ==
    LET cls == [f \in 0..(m - 1) |-> Closure({f}, adj)]
        mins == {SetMin(cls[f]) : f \in 0..(m - 1)}
    IN  [f \in 0..(m - 1) |->
           Cardinality({x \in mins : x < SetMin(cls[f])})]
\* igl::extract_manifold_patches: faces joined across edges with exactly
\* two incident faces.
ManifoldPatches(m, occ) == ClassIds(m, FaceAdjacency(m, occ, TRUE))
\* igl::triangle_triangle_adjacency + igl::facet_components: faces joined
\* across any shared edge.
FacetComponents(m, occ) == ClassIds(m, FaceAdjacency(m, occ, FALSE))

\* ------------------------------------------------------------- meshes
Flip(t) == << t[1], t[3], t[2] >>
\* Outward-oriented tetrahedron on vertices b..b+3.
TetF(b) == << << b, b + 2, b + 1 >>, << b, b + 1, b + 3 >>,
             << b + 1, b + 2, b + 3 >>, << b, b + 3, b + 2 >> >>
\* Its vertices: corner o and the three axis neighbours at distance sz[d].
TetV(o, sz) == << o, << o[1] + sz[1], o[2], o[3] >>,
                 << o[1], o[2] + sz[2], o[3] >>,
                 << o[1], o[2], o[3] + sz[3] >> >>
\* v triangles around the edge {0,1}: "half-planes meeting along an edge".
FanF(v) == [k \in 1..v |-> << 0, 1, k + 1 >>]
FanDirs == << << 1, 0, 0 >>, << 0, 1, 0 >>, << -1, -1, 0 >>,
             << 1, -1, 0 >>, << -1, 1, 0 >> >>
FanV(v) == << << 0, 0, 0 >>, << 0, 0, 1 >> >> \o [k \in 1..v |-> FanDirs[k]]
\* Two tetrahedra glued along the triangle (0,1,2), which is kept: a closed
\* arrangement with three non-manifold edges of valence 3.
ThetaF == << << 0, 1, 2 >>,
            << 0, 1, 3 >>, << 1, 2, 3 >>, << 2, 0, 3 >>,
            << 1, 0, 4 >>, << 2, 1, 4 >>, << 0, 2, 4 >> >>
ThetaV == << << 0, 0, 0 >>, << 4, 0, 0 >>, << 0, 4, 0 >>,
            << 1, 1, 3 >>, << 1, 1, -3 >> >>
\* The faces around each directed edge of the glued triangle, clockwise
\* around the axis d - s (the order order_facets_around_edge documents),
\* from the coordinates ThetaV.
ThetaAround(s, d) ==
    IF << s, d >> = << 0, 1 >> THEN << 1, 0, 4 >>
    ELSE IF << s, d >> = << 1, 2 >> THEN << 2, 0, 5 >>
    ELSE IF << s, d >> = << 2, 0 >> THEN << 3, 0, 6 >>
    ELSE IF << s, d >> = << 1, 0 >> THEN << 4, 0, 1 >>
    ELSE IF << s, d >> = << 2, 1 >> THEN << 5, 0, 2 >>
    ELSE IF << s, d >> = << 0, 2 >> THEN << 6, 0, 3 >>
    ELSE << >>

\* A tetrahedron surface without the face (1,2,3), one patch that meets the
\* edge {0,1} twice, and a fin on that edge: a second patch.
PocketF == << << 0, 2, 1 >>, << 0, 1, 3 >>, << 0, 1, 4 >>, << 0, 3, 2 >> >>
PocketV == << << 0, 0, 0 >>, << 0, 0, 4 >>, << 4, 0, 0 >>, << 0, 4, 0 >>,
             << -4, -4, 0 >> >>

Cube3(x) == << x, x, x >>
ShiftValues == {0 - MaxShift, 0, MaxShift - 2, MaxShift}
Shifts == {sh \in ShiftValues \X ShiftValues \X ShiftValues :
             Cardinality({d \in 1..3 : sh[d] # 0}) <= 1}

\* A mesh of the catalogue: faces and vertex coordinates.
Mesh(name, Fs, Vs) == [name |-> name, F |-> ZeroBased(Fs), V |-> ZeroBased(Vs)]
Meshes ==
    {Mesh("tet", TetF(0), TetV(Cube3(0), Cube3(4)))}
    \cup {Mesh("fan", FanF(v), FanV(v)) : v \in 3..MaxValence}
    \cup {Mesh("theta", ThetaF, ThetaV)}
    \cup {Mesh("twotet", TetF(0) \o TetF(4),
                TetV(Cube3(0), Cube3(4))
                \o TetV(<< 1 + sh[1], 1 + sh[2], 1 + sh[3] >>, Cube3(1)))
             : sh \in Shifts}
    \cup {Mesh("threetet", TetF(0) \o TetF(4) \o TetF(8),
                TetV(Cube3(0), Cube3(16)) \o TetV(Cube3(1), Cube3(8))
                \o TetV(Cube3(2), Cube3(2)))}
    \cup {Mesh("fourtet", TetF(0) \o TetF(4) \o TetF(8) \o TetF(12),
                TetV(Cube3(0), Cube3(8))
                \o TetV(<< 6, 7, 0 >>, << 8, 1, 2 >>)
                \o TetV(<< 6, 7, 4 >>, << 8, 1, 2 >>)
                \o TetV(<< 20, 0, 8 >>, << -8, 8, -8 >>))}
    \cup {Mesh("pockettet", PocketF \o TetF(5),
                PocketV \o TetV(Cube3(1), Cube3(1)))}

\* The faces a caller may hand over with reversed vertex order.
FlipChoices(msh) ==
    IF msh.name = "fan" THEN SUBSET (DOMAIN msh.F)
    ELSE IF msh.name = "theta" THEN {{}, {0}}
    ELSE IF msh.name = "pockettet" THEN {{}, {1}}
    ELSE {{}}
FlipFaces(Fm, X) == [f \in DOMAIN Fm |-> IF f \in X THEN Flip(Fm[f]) ELSE Fm[f]]

\* What the per-patch overload is called with.  rev: the unique edges whose
\* row of uE is given as (d,s); bad: a unique edge whose row of uE names a
\* vertex pair that is no edge of all its listed faces (-1: none).
NonManifold(occ) == {u \in DOMAIN occ : Len(occ[u]) > 2}
OtherVertex(Fm, p) == SetMin((UNION {Range(Fm[f]) : f \in DOMAIN Fm}) \ {p[1], p[2]})
GivenEdges(Fm, rev, bad) ==
    LET ue == UniqueEdges(Fm)
    IN  [u \in DOMAIN ue |->
           IF u = bad THEN << ue[u][1], OtherVertex(Fm, ue[u]) >>
           ELSE IF u \in rev THEN << ue[u][2], ue[u][1] >>
           ELSE ue[u]]
Input(msh, X, rev, bad) ==
    LET Fm == FlipFaces(msh.F, X)
        occ == EdgeOccurrences(Fm)
    IN  [mesh |-> msh.name, F |-> Fm, V |-> msh.V,
         P |-> ManifoldPatches(Cardinality(DOMAIN Fm), occ),
         uE |-> GivenEdges(Fm, rev, bad), uE2E |-> occ, EMAP |-> EdgeMap(Fm),
         entry |-> IF rev = {} /\ bad = -1 THEN "faces" ELSE "patches"]
RevChoices(msh) ==
    IF msh.name = "fan" THEN SUBSET NonManifold(EdgeOccurrences(msh.F)) ELSE {{}}
BadChoices(msh) ==
    IF msh.name \in {"fan", "tet"} THEN DOMAIN UniqueEdges(msh.F) ELSE {}
InputsOf(msh) ==
    {Input(msh, X, rev, -1) : X \in FlipChoices(msh), rev \in RevChoices(msh)}
    \cup {Input(msh, {}, {}, bad) : bad \in BadChoices(msh)}
Inputs == UNION {InputsOf(msh) : msh \in Meshes}

\* -------------------------------------------------------------- state
VARIABLES
    mesh, entry,                 \* which mesh; which overload was called
    F, V, P, uE, uE2E, EMAP,     \* the arguments of extract_cells
    pc, failure,                 \* position in the call; what ended it
    i,                           \* the running loop index
    orders, orientations, patch_edge_adj,   \* the edge-order cache
    raw_cells, count, num_raw_cells,        \* cells per (patch, side)
    Q, cur, ek, cell_idx, seed_side,        \* one peel_cell_bd
    C, outer_facets, outer_facet_orientation, outer_cells,
    nested_cells, ambient_cells, ambient_comps,
    bbox_min, bbox_max,          \* per component and axis
    closest_queries,             \* the (i, candidate) pairs asked of closest_facet
    embedded_cells, mapped_indices,
    per_patch_cells, num_cells,  \* what the per-patch overload hands back
    cells, ret                   \* what the face-level overload hands back

peelVars == << orders, orientations, patch_edge_adj, raw_cells, count,
               num_raw_cells, Q, cur, ek, cell_idx, seed_side >>
inputVars == << mesh, entry, F, V, P, uE, uE2E, EMAP >>
outerVars == << C, outer_facets, outer_facet_orientation, outer_cells >>
nestVars == << nested_cells, ambient_cells, ambient_comps, bbox_min, bbox_max,
              closest_queries >>
finalVars == << embedded_cells, mapped_indices >>
outVars == << per_patch_cells, num_cells, cells, ret >>
resolveVars == << outerVars, nestVars, finalVars, outVars >>
vars == << inputVars, pc, failure, i, peelVars, resolveVars >>

num_faces == Cardinality(DOMAIN F)
num_unique_edges == Cardinality(DOMAIN uE)
\* P.maxCoeff() + 1
num_patches == SetMax(Range(P)) + 1
Sides == {0, 1}
\* No entry popped from the queue yet.
NoEntry == << >>

\* ------------------------------------------------ edge-order cache
edge_index_to_face_index(index) == index % num_faces

\* Face fid has the directed edge a -> b among its three cyclic pairs.
HasDirected(fid, a, b) ==
    \/ Fv(F, fid, 0) = a /\ Fv(F, fid, 1) = b
    \/ Fv(F, fid, 1) = a /\ Fv(F, fid, 2) = b
    \/ Fv(F, fid, 2) = a /\ Fv(F, fid, 0) = b
\* Mutant of InvalidFace: only the presence of an end vertex is tested.
InvalidFaceByVertex(fid, s, d) ==
    \A k \in 0..2 : Fv(F, fid, k) # s /\ Fv(F, fid, k) # d
\* is_consistent reaches its throw "Invalid face!".
InvalidFace(fid, s, d) == ~HasDirected(fid, s, d) /\ ~HasDirected(fid, d, s)
\* Mutant of is_consistent: true for a face that has s -> d.
is_consistent_forward(fid, s, d) ==
    IF HasDirected(fid, s, d) THEN TRUE ELSE FALSE
\* The value is_consistent returns when it returns.
is_consistent(fid, s, d) ==
    IF HasDirected(fid, s, d) THEN FALSE ELSE TRUE

\* signed_adj_faces of unique edge u, as a 0-based array.
signed_adj_faces(u) ==
    LET adj_faces == uE2E[u]
    IN  [a \in 0..(Len(adj_faces) - 1) |->
           LET fid == edge_index_to_face_index(adj_faces[a + 1])
           IN  (fid + 1) * (IF is_consistent(fid, uE[u][1], uE[u][2]) THEN 1 ELSE -1)]
\* orientation: the flag of the face at each place of the order.
OrientationOf(signed, order) == [k \in DOMAIN order |-> signed[order[k]] > 0]
\* order re-indexed from places in adj_faces to rows of E.
ReindexOrder(adj_faces, order) == [k \in DOMAIN order |-> adj_faces[order[k] + 1]]
\* patch_edge_adj after "for ei in adj_faces: patch_edge_adj[P[fid]].push_back(ei)".
RECURSIVE PushAdjacent(_, _, _)
PushAdjacent(pea, adj_faces, k) ==
    IF k > Len(adj_faces) THEN pea
    ELSE LET ei == adj_faces[k]
             p == P[edge_index_to_face_index(ei)]
         IN  PushAdjacent([pea EXCEPT ![p] = Append(@, ei)], adj_faces, k + 1)

InitialCells == [p \in 0..(num_patches - 1) |-> [sd \in Sides |-> INVALID]]

\* The loop "for i < num_unique_edges" has ended: cells.setConstant(INVALID),
\* count = 0, and the scan of the patches starts.
StartScan ==
    /\ pc = "edges" /\ i = num_unique_edges
    /\ raw_cells' = InitialCells
    /\ count' = 0
    /\ i' = 0 /\ seed_side' = 0
    /\ pc' = "scan"
    /\ UNCHANGED << inputVars, resolveVars, failure, orders, orientations, patch_edge_adj,
                    num_raw_cells, Q, cur, ek, cell_idx >>

\* An edge with at most two incident faces is skipped.
SkipManifoldEdge ==
    /\ pc = "edges" /\ i < num_unique_edges
    /\ Len(uE2E[i]) <= 2
    /\ i' = i + 1
    /\ UNCHANGED << inputVars, resolveVars, pc, failure, peelVars >>

\* A face listed on non-manifold edge i has neither direction of it.
ThrowInvalidFace ==
    /\ pc = "edges" /\ i < num_unique_edges
    /\ Len(uE2E[i]) > 2
    /\ \E a \in 1..Len(uE2E[i]) :
          InvalidFace(edge_index_to_face_index(uE2E[i][a]), uE[i][1], uE[i][2])
    /\ pc' = "throw" /\ failure' = "Invalid face!"
    /\ UNCHANGED << inputVars, resolveVars, i, peelVars >>

\* Non-manifold edge i: order_facets_around_edge answers with a permutation
\* of the places of signed_adj_faces.
OrderEdge ==
    /\ pc = "edges" /\ i < num_unique_edges
    /\ Len(uE2E[i]) > 2
    /\ \A a \in 1..Len(uE2E[i]) :
          ~InvalidFace(edge_index_to_face_index(uE2E[i][a]), uE[i][1], uE[i][2])
    /\ \E order \in Perms(Len(uE2E[i])) :
          /\ orientations' = [orientations EXCEPT
                                ![i] = OrientationOf(signed_adj_faces(i), order)]
          /\ orders' = [orders EXCEPT ![i] = ReindexOrder(uE2E[i], order)]
    /\ patch_edge_adj' = PushAdjacent(patch_edge_adj, uE2E[i], 1)
    /\ i' = i + 1
    /\ UNCHANGED << inputVars, resolveVars, pc, failure, raw_cells, count, num_raw_cells,
                    Q, cur, ek, cell_idx, seed_side >>

\* ----------------------------------------------------- peel_cell_bd
\* curr_i after the search loop (lines 478-482): the first place of order
\* holding ei, edge_valance if no place holds it.
FindPlace(order, ei) ==
    LET hits == {k \in DOMAIN order : order[k] = ei}
    IN  IF hits = {} THEN Cardinality(DOMAIN order) ELSE SetMin(hits)
\* Mutant of NextPlace: the direction is taken from the flag alone.
NextPlaceByFlag(curr_i, side, cons, edge_valance) ==
    IF cons THEN (curr_i + 1) % edge_valance
    ELSE (curr_i + edge_valance - 1) % edge_valance
\* Mutant of NextPlace: always the following place.
NextPlaceForward(curr_i, side, cons, edge_valance) == (curr_i + 1) % edge_valance
\* Mutant of NextPlace: the direction is taken from the side alone.
NextPlaceBySide(curr_i, side, cons, edge_valance) ==
    IF side = 0 THEN (curr_i + 1) % edge_valance
    ELSE (curr_i + edge_valance - 1) % edge_valance
\* next: the place stepped to from curr_i.
NextPlace(curr_i, side, cons, edge_valance) ==
    IF side = 0
    THEN (IF cons THEN curr_i + 1 ELSE curr_i + edge_valance - 1) % edge_valance
    ELSE (IF cons THEN curr_i + edge_valance - 1 ELSE curr_i + 1) % edge_valance
\* Mutant of NextPatchSide: the side is carried over unchanged.
NextPatchSideKept(side, cons, next_cons) == side
\* Mutant of NextPatchSide: the same side is kept when the flags agree.
NextPatchSideSameIfEqual(side, cons, next_cons) ==
    IF next_cons = cons THEN side ELSE 1 - side
\* next_patch_side
NextPatchSide(side, cons, next_cons) ==
    IF next_cons # cons THEN side ELSE IF side - 1 < 0 THEN 1 - side ELSE side - 1
\* Mutant of StepIn: the neighbour's face is taken as next_ei / 3.
StepInFaceByThree(ords, oris, ei, side) ==
    LET uei == EMAP[ei]
        order == ords[uei]
        orientation == oris[uei]
        edge_valance == Cardinality(DOMAIN order)
        curr_i == FindPlace(order, ei)
        cons == orientation[curr_i]
        next == NextPlace(curr_i, side, cons, edge_valance)
        next_ei == order[next]
    IN  [patch |-> P[next_ei \div 3],
         side |-> NextPatchSide(side, cons, orientation[next]),
         curr_i |-> curr_i, next |-> next, ei |-> next_ei]
\* The (patch, side) reached from (patch of face-edge ei, side) across the
\* unique edge of ei.
StepIn(ords, oris, ei, side) ==
    LET uei == EMAP[ei]
        order == ords[uei]
        orientation == oris[uei]
        edge_valance == Cardinality(DOMAIN order)
        curr_i == FindPlace(order, ei)
        cons == orientation[curr_i]
        next == NextPlace(curr_i, side, cons, edge_valance)
        next_ei == order[next]
    IN  [patch |-> P[next_ei % num_faces],
         side |-> NextPatchSide(side, cons, orientation[next]),
         curr_i |-> curr_i, next |-> next, ei |-> next_ei]
Step(ei, side) == StepIn(orders, orientations, ei, side)

\* The popped entry has no face-edge left to visit.
Exhausted == IF cur = NoEntry THEN TRUE ELSE ek > Len(patch_edge_adj[cur[1]])

\* Mutant of AdvanceScan: the scan goes to the next patch after one side.
AdvanceScanPatchOnly ==
    /\ seed_side' = seed_side
    /\ i' = i + 1
\* The next (patch, side) of the scan "for i: side 0, then side 1".
AdvanceScan ==
    /\ seed_side' = 1 - seed_side
    /\ i' = IF seed_side = 1 THEN i + 1 ELSE i

\* cells(i, side) == INVALID: a new cell is seeded and peel_cell_bd starts.
Seed ==
    /\ pc = "scan" /\ i < num_patches
    /\ raw_cells[i][seed_side] = INVALID
    /\ Q' = << << i, seed_side >> >>
    /\ raw_cells' = [raw_cells EXCEPT ![i][seed_side] = count]
    /\ cell_idx' = count
    /\ cur' = NoEntry /\ ek' = 1
    /\ pc' = "peel"
    /\ UNCHANGED << inputVars, resolveVars, failure, i, seed_side, orders, orientations,
                    patch_edge_adj, count, num_raw_cells >>

\* cells(i, side) is labelled already.
ScanLabeled ==
    /\ pc = "scan" /\ i < num_patches
    /\ raw_cells[i][seed_side] # INVALID
    /\ AdvanceScan
    /\ UNCHANGED << inputVars, resolveVars, pc, failure, orders, orientations, patch_edge_adj,
                    raw_cells, count, num_raw_cells, Q, cur, ek, cell_idx >>

\* Q.front(), Q.pop()
Pop ==
    /\ pc = "peel" /\ Exhausted /\ Q # << >>
    /\ cur' = Head(Q) /\ Q' = Tail(Q) /\ ek' = 1
    /\ UNCHANGED << inputVars, resolveVars, pc, failure, i, seed_side, orders, orientations,
                    patch_edge_adj, raw_cells, count, num_raw_cells, cell_idx >>

\* Mutant of Visit: the neighbour is labelled and queued without the test
\* "cells(next_patch_id, next_patch_side) == INVALID".
VisitUnchecked ==
    /\ pc = "peel" /\ ~Exhausted
    /\ LET ei == patch_edge_adj[cur[1]][ek]
           order == orders[EMAP[ei]]
           edge_valance == Cardinality(DOMAIN order)
           st == Step(ei, cur[2])
       IN  IF ~(FindPlace(order, ei) < edge_valance)
           THEN /\ pc' = "abort"
                /\ failure' = "Failed to find edge."
                /\ UNCHANGED << Q, raw_cells, ek >>
           ELSE /\ Q' = Append(Q, << st.patch, st.side >>)
                /\ raw_cells' = [raw_cells EXCEPT ![st.patch][st.side] = cell_idx]
                /\ ek' = ek + 1
                /\ UNCHANGED << pc, failure >>
    /\ UNCHANGED << inputVars, resolveVars, i, seed_side, orders, orientations,
                    patch_edge_adj, count, num_raw_cells, cur, cell_idx >>
\* Mutant of Visit: the turn goes to the next face-edge without labelling
\* or queueing the neighbour.
VisitWithoutLabel ==
    /\ pc = "peel" /\ ~Exhausted
    /\ ek' = ek + 1
    /\ UNCHANGED << inputVars, resolveVars, pc, failure, i, seed_side, orders,
                    orientations, patch_edge_adj, raw_cells, count,
                    num_raw_cells, Q, cur, cell_idx >>
\* One turn of "for ei in adj_edges" for the popped entry: the assertion
\* "Failed to find edge." (line 483), then the neighbour is labelled and
\* queued, or found with the running id, or the assertion "Encountered cell
\* assignment inconsistency" fails (lines 509-518).
Visit ==
    /\ pc = "peel" /\ ~Exhausted
    /\ LET ei == patch_edge_adj[cur[1]][ek]
           order == orders[EMAP[ei]]
           edge_valance == Cardinality(DOMAIN order)
           st == Step(ei, cur[2])
       IN  IF ~(FindPlace(order, ei) < edge_valance)
           THEN /\ pc' = "abort"
                /\ failure' = "Failed to find edge."
                /\ UNCHANGED << Q, raw_cells, ek >>
           ELSE IF raw_cells[st.patch][st.side] = INVALID
           THEN /\ Q' = Append(Q, << st.patch, st.side >>)
                /\ raw_cells' = [raw_cells EXCEPT ![st.patch][st.side] = cell_idx]
                /\ ek' = ek + 1
                /\ UNCHANGED << pc, failure >>
           ELSE IF raw_cells[st.patch][st.side] = cell_idx
           THEN /\ ek' = ek + 1
                /\ UNCHANGED << pc, failure, Q, raw_cells >>
           ELSE /\ pc' = "abort"
                /\ failure' = "Encountered cell assignment inconsistency"
                /\ UNCHANGED << Q, raw_cells, ek >>
    /\ UNCHANGED << inputVars, resolveVars, i, seed_side, orders, orientations,
                    patch_edge_adj, count, num_raw_cells, cur, cell_idx >>

\* The queue is empty: peel_cell_bd returns and count++.
PeelDone ==
    /\ pc = "peel" /\ Exhausted /\ Q = << >>
    /\ count' = count + 1
    /\ cur' = NoEntry
    /\ AdvanceScan
    /\ pc' = "scan"
    /\ UNCHANGED << inputVars, resolveVars, failure, orders, orientations, patch_edge_adj,
                    raw_cells, num_raw_cells, Q, ek, cell_idx >>

\* Mutant of CallerTableAfterPeel: the peeler is handed the caller's table.
CallerTableShared == raw_cells
\* The caller's table once the peeler has returned: the peeler was handed
\* the local raw_cells (line 97), so the caller's table is as it was.
CallerTableAfterPeel == per_patch_cells
\* extract_cells_single_component returns count.
PeelerReturns ==
    /\ pc = "scan" /\ i = num_patches
    /\ num_raw_cells' = count
    /\ per_patch_cells' = CallerTableAfterPeel
    /\ pc' = "components"
    /\ UNCHANGED << inputVars, outerVars, nestVars, finalVars, num_cells, cells,
                    ret, failure, i, seed_side, orders,
                    orientations, patch_edge_adj, raw_cells, count, Q, cur, ek,
                    cell_idx >>

\* ------------------------------------ components and outer facets
num_components == SetMax(Range(C)) + 1
\* Is[c]: the faces of component c, in increasing index.
Is(c) == SortedSeq({f \in DOMAIN C : C[f] = c})
\* Array a with a[k] set (the arrays sized up front are filled in order).
Put(a, k, v) == [x \in (DOMAIN a) \cup {k} |-> IF x = k THEN v ELSE a[x]]
\* One face per patch of component c.  outer_facet and closest_facet answer
\* with a face of the component; the caller uses the face through P[face]
\* and through its barycenter (which only goes back to closest_facet), so
\* the lowest face of each patch stands for the faces of the patch.
PatchFaces(c) ==
    {f \in DOMAIN C : C[f] = c /\ \A g \in DOMAIN C : (C[g] = c /\ P[g] = P[f]) => f <= g}

\* triangle_triangle_adjacency, facet_components, components[], Is[].
Components ==
    /\ pc = "components"
    /\ C' = FacetComponents(num_faces, uE2E)
    /\ i' = 0
    /\ pc' = "outer"
    /\ UNCHANGED << inputVars, failure, peelVars, outer_facets,
                    outer_facet_orientation, outer_cells, nestVars, finalVars,
                    outVars >>

\* Mutant of OuterCellOf: the orientation flag read the wrong way round.
OuterCellOfSwapped(facet, flipped) == raw_cells[P[facet]][IF flipped THEN 0 ELSE 1]
\* outer_cells[i] for an answer (facet, flipped) of outer_facet.
OuterCellOf(facet, flipped) == raw_cells[P[facet]][IF flipped THEN 1 ELSE 0]

OuterFacet ==
    /\ pc = "outer" /\ i < num_components
    /\ \E facet \in PatchFaces(i), flipped \in BOOLEAN :
          /\ outer_facets' = Put(outer_facets, i, facet)
          /\ outer_facet_orientation' =
                Put(outer_facet_orientation, i, IF flipped THEN 1 ELSE 0)
          /\ outer_cells' = Put(outer_cells, i, OuterCellOf(facet, flipped))
    /\ i' = i + 1
    /\ UNCHANGED << inputVars, pc, failure, peelVars, C, nestVars, finalVars,
                    outVars >>

\* -------------------------------------------------- nesting resolver
\* V.colwise().maxCoeff() and minCoeff()
ColMax(d) == SetMax({V[v][d + 1] : v \in DOMAIN V})
ColMin(d) == SetMin({V[v][d + 1] : v \in DOMAIN V})
\* The coordinates d of the corners of the faces of component c.
CornerCoords(c, d) ==
    {V[Fv(F, f, j)][d + 1] : f \in {g \in DOMAIN C : C[g] = c}, j \in 0..2}
\* bbox_min, bbox_max after the loop over the faces (lines 159-178).
BoxMin == [c \in 0..(num_components - 1) |->
             [d \in 0..2 |-> SetMin({ColMax(d)} \cup CornerCoords(c, d))]]
BoxMax == [c \in 0..(num_components - 1) |->
             [d \in 0..2 |-> SetMax({ColMin(d)} \cup CornerCoords(c, d))]]
\* Mutant of bbox_intersects: only "ci lies before cj" is tested.
bbox_intersects_oneway(ci, cj) ==
    ~ (\/ bbox_max[ci][0] < bbox_min[cj][0]
       \/ bbox_max[ci][1] < bbox_min[cj][1]
       \/ bbox_max[ci][2] < bbox_min[cj][2])
bbox_intersects(ci, cj) ==
    ~ (\/ bbox_max[ci][0] < bbox_min[cj][0]
       \/ bbox_max[ci][1] < bbox_min[cj][1]
       \/ bbox_max[ci][2] < bbox_min[cj][2]
       \/ bbox_max[cj][0] < bbox_min[ci][0]
       \/ bbox_max[cj][1] < bbox_min[ci][1]
       \/ bbox_max[cj][2] < bbox_min[ci][2])
candidate_comps(ci) ==
    SortedSeq({j \in 0..(num_components - 1) : j # ci /\ bbox_intersects(ci, j)})

\* The loop over the candidates of component ci (lines 221-234), from
\* candidate j on, for the answers ans[j] = << closest facet, orientation >>.
RECURSIVE RecordAmbient(_, _, _, _, _)
RecordAmbient(st, ci, cands, ans, j) ==
    IF j > Len(cands) THEN st
    ELSE LET index == cands[j]
             closest_patch == P[ans[j][1]]
             closest_patch_side == IF ans[j][2] THEN 0 ELSE 1
             ambient_cell == raw_cells[closest_patch][closest_patch_side]
         IN  IF ambient_cell # outer_cells[ci]
             THEN RecordAmbient(
                    [nested_cells |-> [st.nested_cells EXCEPT
                         ![ambient_cell] = Append(@, outer_cells[index])],
                     ambient_cells |-> [st.ambient_cells EXCEPT
                         ![outer_cells[index]] = Append(@, ambient_cell)],
                     ambient_comps |-> [st.ambient_comps EXCEPT
                         ![index] = Append(@, ci)]],
                    ci, cands, ans, j + 1)
             ELSE RecordAmbient(st, ci, cands, ans, j + 1)

\* nested_cells, ambient_cells, ambient_comps are created empty; the
\* resolver is entered only if there is more than one component.
StartNesting ==
    /\ pc = "outer" /\ i = num_components
    /\ nested_cells' = [c \in 0..(num_raw_cells - 1) |-> << >>]
    /\ ambient_cells' = [c \in 0..(num_raw_cells - 1) |-> << >>]
    /\ ambient_comps' = [c \in 0..(num_components - 1) |-> << >>]
    /\ embedded_cells' = [c \in 0..(num_raw_cells - 1) |-> INVALID_SZ]
    /\ IF num_components > 1
       THEN bbox_min' = BoxMin /\ bbox_max' = BoxMax /\ pc' = "nest"
       ELSE UNCHANGED << bbox_min, bbox_max >> /\ pc' = "embed"
    /\ i' = 0
    /\ UNCHANGED << inputVars, failure, peelVars, outerVars, closest_queries,
                    mapped_indices, outVars >>

\* Component i has no candidate: continue.
NoCandidates ==
    /\ pc = "nest" /\ i < num_components
    /\ candidate_comps(i) = << >>
    /\ i' = i + 1
    /\ UNCHANGED << inputVars, pc, failure, peelVars, outerVars, nestVars,
                    finalVars, outVars >>

\* Component i has candidates: one closest_facet call with one query per
\* candidate, answered with a face of component i and an orientation.
QueryCandidates ==
    /\ pc = "nest" /\ i < num_components
    /\ candidate_comps(i) # << >>
    /\ LET cands == candidate_comps(i)
       IN  /\ closest_queries' =
                 closest_queries \cup {<< i, cands[j] >> : j \in 1..Len(cands)}
           /\ \E ans \in [1..Len(cands) -> PatchFaces(i) \X BOOLEAN] :
                 LET st == RecordAmbient(
                             [nested_cells |-> nested_cells,
                              ambient_cells |-> ambient_cells,
                              ambient_comps |-> ambient_comps],
                             i, cands, ans, 1)
                 IN  /\ nested_cells' = st.nested_cells
                     /\ ambient_cells' = st.ambient_cells
                     /\ ambient_comps' = st.ambient_comps
    /\ i' = i + 1
    /\ UNCHANGED << inputVars, pc, failure, peelVars, outerVars, finalVars,
                    outVars, bbox_min, bbox_max >>

NestingDone ==
    /\ pc = "nest" /\ i = num_components
    /\ i' = 0
    /\ pc' = "embed"
    /\ UNCHANGED << inputVars, failure, peelVars, outerVars, nestVars,
                    finalVars, outVars >>

\* ------------------------------------------- immediate parent cells
INFINITE_CELL == num_raw_cells
\* Mutant of FirstParent: the last such place instead of the first.
LastParent(ci) ==
    LET ambient_comps_i == ambient_comps[ci]
        num_ambient_comps == Len(ambient_comps_i)
        hits == {j \in 1..num_ambient_comps :
                   Len(ambient_comps[ambient_comps_i[j]]) = num_ambient_comps - 1}
    IN  IF hits = {} THEN 0 ELSE SetMax(hits)
\* The first j (1-based place in ambient_comps[ci]) whose component has one
\* ambient component fewer than ci; 0 if the loop ends without a break.
FirstParent(ci) ==
    LET ambient_comps_i == ambient_comps[ci]
        num_ambient_comps == Len(ambient_comps_i)
        hits == {j \in 1..num_ambient_comps :
                   Len(ambient_comps[ambient_comps_i[j]]) = num_ambient_comps - 1}
    IN  IF hits = {} THEN 0 ELSE SetMin(hits)

\* Mutant of EmbeddedCellOf: every outer cell is put in the infinite cell.
EmbeddedCellOfFlat(ci) == INFINITE_CELL
\* embedded_cells[outer_cell] for component ci, when no assert fails.
EmbeddedCellOf(ci) ==
    IF Len(ambient_comps[ci]) > 0
    THEN ambient_cells[outer_cells[ci]][FirstParent(ci)]
    ELSE INFINITE_CELL

\* One turn of the loop of lines 244-267.
EmbedComponent ==
    /\ pc = "embed" /\ i < num_components
    /\ LET outer_cell == outer_cells[i]
           ambient_cells_i == ambient_cells[outer_cell]
           num_ambient_comps == Len(ambient_comps[i])
       IN  IF num_ambient_comps # Len(ambient_cells_i)
           THEN /\ pc' = "abort"
                /\ failure' = "num_ambient_comps == ambient_cells_i.size()"
                /\ UNCHANGED << i, embedded_cells >>
           ELSE IF num_ambient_comps > 0 /\ FirstParent(i) = 0
           THEN /\ pc' = "abort"
                /\ failure' = "embedded_comp != INVALID"
                /\ UNCHANGED << i, embedded_cells >>
           ELSE /\ embedded_cells' =
                     [embedded_cells EXCEPT ![outer_cell] = EmbeddedCellOf(i)]
                /\ i' = i + 1
                /\ UNCHANGED << pc, failure >>
    /\ UNCHANGED << inputVars, peelVars, outerVars, nestVars, mapped_indices,
                    outVars >>

\* Mutant of RewritePass: only the positive side of a patch is rewritten.
RECURSIVE RewritePassPositiveOnly(_, _)
RewritePassPositiveOnly(rc, k) ==
    IF k >= num_patches THEN rc
    ELSE LET r0 == IF embedded_cells[rc[k][0]] # INVALID_SZ
                   THEN [rc EXCEPT ![k][0] = embedded_cells[rc[k][0]]] ELSE rc
         IN  RewritePassPositiveOnly(r0, k + 1)
\* The loop of lines 268-275 from patch k on.
RECURSIVE RewritePass(_, _)
RewritePass(rc, k) ==
    IF k >= num_patches THEN rc
    ELSE LET r0 == IF embedded_cells[rc[k][0]] # INVALID_SZ
                   THEN [rc EXCEPT ![k][0] = embedded_cells[rc[k][0]]] ELSE rc
             r1 == IF embedded_cells[r0[k][1]] # INVALID_SZ
                   THEN [r0 EXCEPT ![k][1] = embedded_cells[r0[k][1]]] ELSE r0
         IN  RewritePass(r1, k + 1)

Rewrite ==
    /\ pc = "embed" /\ i = num_components
    /\ raw_cells' = RewritePass(raw_cells, 0)
    /\ pc' = "compact"
    /\ UNCHANGED << inputVars, failure, i, orders, orientations, patch_edge_adj,
                    count, num_raw_cells, Q, cur, ek, cell_idx, seed_side,
                    resolveVars >>

\* --------------------------------------------------------- compactor
\* Mutant of MapOne: the new id is taken after the increment.
MapOnePreIncrement(st, old) ==
    IF st.mapped[old] = INVALID_SZ
    THEN [mapped |-> [st.mapped EXCEPT ![old] = st.count + 1],
          count |-> st.count + 1, id |-> st.count + 1]
    ELSE [mapped |-> st.mapped, count |-> st.count, id |-> st.mapped[old]]
\* mapped_indices[old] looked up, or set to the next count.
MapOne(st, old) ==
    IF st.mapped[old] = INVALID_SZ
    THEN [mapped |-> [st.mapped EXCEPT ![old] = st.count],
          count |-> st.count + 1, id |-> st.count]
    ELSE [mapped |-> st.mapped, count |-> st.count, id |-> st.mapped[old]]
\* Mutant of CompactPass: the negative side of a patch is mapped first.
RECURSIVE CompactPassNegativeFirst(_, _)
CompactPassNegativeFirst(st, k) ==
    IF k >= num_patches THEN st
    ELSE LET neg == MapOne(st, st.cells[k][1])
             pos == MapOne(neg, st.cells[k][0])
         IN  CompactPassNegativeFirst(
               [cells |-> [st.cells EXCEPT ![k] = [sd \in Sides |->
                             IF sd = 0 THEN pos.id ELSE neg.id]],
                mapped |-> pos.mapped, count |-> pos.count],
               k + 1)
\* The loop of lines 283-303 from patch k on.
RECURSIVE CompactPass(_, _)
CompactPass(st, k) ==
    IF k >= num_patches THEN st
    ELSE LET old_positive_cell_id == st.cells[k][0]
             old_negative_cell_id == st.cells[k][1]
             pos == MapOne(st, old_positive_cell_id)
             neg == MapOne(pos, old_negative_cell_id)
         IN  CompactPass(
               [cells |-> [st.cells EXCEPT ![k] = [sd \in Sides |->
                             IF sd = 0 THEN pos.id ELSE neg.id]],
                mapped |-> neg.mapped, count |-> neg.count],
               k + 1)
\* Mutant of Compacted: the infinite cell is mapped to 0 without "count++".
CompactedUncounted ==
    CompactPass(
      [cells |-> raw_cells,
       mapped |-> [c \in 0..num_raw_cells |->
                     IF c = INFINITE_CELL THEN 0 ELSE INVALID_SZ],
       count |-> 0],
      0)
\* count = 0; mapped_indices[INFINITE_CELL] = count; count++; the loop.
Compacted ==
    CompactPass(
      [cells |-> raw_cells,
       mapped |-> [c \in 0..num_raw_cells |->
                     IF c = INFINITE_CELL THEN 0 ELSE INVALID_SZ],
       count |-> 1],
      0)

\* Lines 277-308: compaction, cells = raw_cells, return count.
Compact ==
    /\ pc = "compact"
    /\ raw_cells' = Compacted.cells
    /\ mapped_indices' = Compacted.mapped
    /\ count' = Compacted.count
    /\ per_patch_cells' = Compacted.cells
    /\ num_cells' = Compacted.count
    /\ pc' = IF entry = "faces" THEN "distribute" ELSE "done"
    /\ UNCHANGED << inputVars, failure, i, orders, orientations, patch_edge_adj,
                    num_raw_cells, Q, cur, ek, cell_idx, seed_side, outerVars,
                    nestVars, embedded_cells, cells, ret >>

\* ------------------------------------------ face-level overload
\* Mutant of DistributeRow: the row of the face's component, not its patch.
DistributeRowByComponent(fid) == per_patch_cells[C[fid]]
\* cells.row(i) = per_patch_cells.row(P[i])
DistributeRow(fid) == per_patch_cells[P[fid]]

\* Lines 47-52.
Distribute ==
    /\ pc = "distribute"
    /\ cells' = [fid \in 0..(num_faces - 1) |-> DistributeRow(fid)]
    /\ ret' = num_cells
    /\ pc' = "done"
    /\ UNCHANGED << inputVars, failure, i, peelVars, outerVars, nestVars,
                    finalVars, per_patch_cells, num_cells >>

\* The caller's tables before the call.
Untouched == << >>

\* ============================================================ claims
\* The per-patch overload has returned its cell count.
PatchReturned == pc \in {"distribute", "done"}
\* The peeler has returned and raw_cells still holds the raw ids.
RawCellsReady == pc \in {"components", "outer", "nest", "embed"}
Patches == 0..(num_patches - 1)
PatchSides == Patches \X Sides
\* The non-manifold unique edges of the input.
NonManifoldEdges == NonManifold(uE2E)

\* C1: when the per-patch extract_cells returns n, every entry of its table
\* is in [0, n), every value of [0, n) is some entry, and an entry is 0
\* exactly when it held INFINITE_CELL before compaction.  Stated on the step
\* that compacts and returns: raw_cells is the table before compaction.
C1_DenseIds ==
    [][pc = "compact" =>
         /\ \A ps \in PatchSides :
               /\ per_patch_cells'[ps[1]][ps[2]] \in 0..(num_cells' - 1)
               /\ (per_patch_cells'[ps[1]][ps[2]] = 0)
                     <=> (raw_cells[ps[1]][ps[2]] = INFINITE_CELL)
         /\ \A v \in 0..(num_cells' - 1) :
               \E ps \in PatchSides : per_patch_cells'[ps[1]][ps[2]] = v]_vars
\* A call of three nested components has returned 4 cells, one entry being 0.
C1_Witness ==
    /\ PatchReturned /\ mesh = "threetet" /\ num_cells = 4
    /\ \E ps \in PatchSides : per_patch_cells[ps[1]][ps[2]] = 0
    /\ \E ps \in PatchSides : per_patch_cells[ps[1]][ps[2]] = 3

\* C2: one component that is a single manifold patch gives exactly 2 cells,
\* 0 on the side outer_facet reports as outward (side 1 if flipped, else
\* side 0) and 1 on the other side of every patch.
SingleManifoldPatch ==
    /\ num_patches = 1 /\ NonManifoldEdges = {}
    /\ \A u \in DOMAIN uE2E : Len(uE2E[u]) = 2
C2_SingleComponent ==
    (PatchReturned /\ SingleManifoldPatch) =>
       /\ num_components = 1
       /\ num_cells = 2
       /\ \A p \in Patches :
             /\ per_patch_cells[p][outer_facet_orientation[0]] = 0
             /\ per_patch_cells[p][1 - outer_facet_orientation[0]] = 1
\* The tetrahedron, reported flipped, has returned (1, 0).
C2_Witness ==
    /\ PatchReturned /\ SingleManifoldPatch /\ outer_facet_orientation[0] = 1
    /\ per_patch_cells[0][0] = 1 /\ per_patch_cells[0][1] = 0

\* Components a, b are closed manifold surfaces of one patch each.
ClosedManifoldPair(a, b) ==
    /\ num_components = 2 /\ {a, b} = {0, 1} /\ num_patches = 2
    /\ \A u \in DOMAIN uE2E : Len(uE2E[u]) = 2
\* The patch and the outward side of component c, and its inner side.
OuterPatch(c) == P[outer_facets[c]]
OuterSide(c) == outer_facet_orientation[c]
InnerSide(c) == 1 - outer_facet_orientation[c]
\* One of the six separating conditions holds for the boxes of a and b.
Separated(a, b) ==
    \E d \in 0..2 : bbox_max[a][d] < bbox_min[b][d] \/ bbox_max[b][d] < bbox_min[a][d]

\* C3: two closed manifold components with overlapping boxes, the query of
\* b's outer facet against a landing on a's inner side (recorded: b's outer
\* cell lies in a's inner cell) and the query of a's outer facet against b
\* landing on b's outer side (nothing recorded): exactly 3 cells, a's outer
\* side is 0, and b's outer side carries the id of a's inner side, not 0.
C3_Nested ==
    \A a, b \in {0, 1} :
       (/\ PatchReturned /\ ClosedManifoldPair(a, b)
        /\ ~Separated(a, b)
        /\ ambient_comps[b] = << a >> /\ ambient_comps[a] = << >>)
       => /\ num_cells = 3
          /\ per_patch_cells[OuterPatch(a)][OuterSide(a)] = 0
          /\ per_patch_cells[OuterPatch(b)][OuterSide(b)]
                = per_patch_cells[OuterPatch(a)][InnerSide(a)]
          /\ per_patch_cells[OuterPatch(b)][OuterSide(b)] # 0
\* The second tetrahedron, inside the first, has been nested under it.
C3_Witness ==
    /\ PatchReturned /\ ClosedManifoldPair(0, 1) /\ ~Separated(0, 1)
    /\ ambient_comps[1] = << 0 >> /\ ambient_comps[0] = << >>
    /\ per_patch_cells[OuterPatch(1)][OuterSide(1)] = 1
    /\ per_patch_cells[OuterPatch(1)][InnerSide(1)] = 2

\* C4: two closed manifold components with separated boxes: no closest-facet
\* query, no ambient relationship, exactly 3 cells, both outer sides 0 and
\* the two inner sides two different ids of {1, 2}.
C4_Disjoint ==
    (/\ pc \in {"embed", "compact", "distribute", "done"}
     /\ ClosedManifoldPair(0, 1) /\ Separated(0, 1))
    => /\ closest_queries = {}
       /\ \A c \in {0, 1} : ambient_comps[c] = << >>
       /\ \A c \in DOMAIN ambient_cells : ambient_cells[c] = << >>
       /\ \A c \in DOMAIN nested_cells : nested_cells[c] = << >>
       /\ PatchReturned =>
             /\ num_cells = 3
             /\ \A c \in {0, 1} : per_patch_cells[OuterPatch(c)][OuterSide(c)] = 0
             /\ {per_patch_cells[OuterPatch(c)][InnerSide(c)] : c \in {0, 1}} = {1, 2}
\* The second tetrahedron, moved below the first along an axis, has its own
\* interior cell.
C4_Witness ==
    /\ PatchReturned /\ ClosedManifoldPair(0, 1)
    /\ \E d \in 0..2 : bbox_max[1][d] < bbox_min[0][d]
    /\ num_cells = 3 /\ closest_queries = {}

\* C5: the face-level overload returns one row per face, row f being the
\* per-patch pair of patch P[f], and the count of the per-patch overload.
C5_PerFace ==
    (pc = "done" /\ entry = "faces") =>
       /\ DOMAIN cells = 0..(num_faces - 1)
       /\ \A f \in 0..(num_faces - 1) :
             /\ DOMAIN cells[f] = Sides
             /\ \A sd \in Sides : cells[f][sd] = per_patch_cells[P[f]][sd]
       /\ \A f, g \in 0..(num_faces - 1) : P[f] = P[g] => cells[f] = cells[g]
       /\ ret = num_cells
\* The glued tetrahedra: seven rows, faces 1 and 4 in different patches
\* with different pairs.
C5_Witness ==
    /\ pc = "done" /\ entry = "faces" /\ mesh = "theta"
    /\ cells[1] # cells[4] /\ cells[1] = cells[2] /\ ret = 3

\* The cyclic order of the faces around the directed edge (s, d) that the
\* geometry of the mesh gives (known for the glued tetrahedra).
Around(s, d) == IF mesh = "theta" THEN ThetaAround(s, d) ELSE << >>
\* orders[u] is that cyclic order, from some starting face.
GeometricOrder(u) ==
    LET g == Around(uE[u][1], uE[u][2])
        v == Cardinality(DOMAIN orders[u])
    IN  /\ Len(g) = v
        /\ \E k \in 0..(v - 1) : \A j \in 0..(v - 1) :
              orders[u][j] % num_faces = g[((j + k) % v) + 1]
\* A closed arrangement: no edge with a single face, and around every
\* non-manifold edge the faces are stored in their geometric order.
ClosedArrangement ==
    /\ \A u \in DOMAIN uE2E : Len(uE2E[u]) >= 2
    /\ \A u \in NonManifoldEdges : GeometricOrder(u)

\* C6: after the decomposition of a closed arrangement (the cyclic orders
\* being the geometric ones), the two cells of every patch differ, for the
\* raw ids of the peeler and for the final ids.
C6_SidesDiffer ==
    /\ (RawCellsReady /\ ClosedArrangement) =>
          \A p \in Patches : raw_cells[p][0] # raw_cells[p][1]
    /\ (PatchReturned /\ ClosedArrangement) =>
          \A p \in Patches : per_patch_cells[p][0] # per_patch_cells[p][1]
\* The glued tetrahedra, in geometric order, have returned their 3 cells.
C6_Witness ==
    /\ PatchReturned /\ mesh = "theta" /\ ClosedArrangement
    /\ NonManifoldEdges # {} /\ num_cells = 3
    /\ per_patch_cells[0][0] # per_patch_cells[0][1]

\* The only non-manifold edge has three faces in three different patches.
WedgeInput ==
    \E u \in NonManifoldEdges :
       /\ NonManifoldEdges = {u}
       /\ Len(uE2E[u]) = 3
       /\ Cardinality({P[uE2E[u][a] % num_faces] : a \in 1..3}) = 3
\* The place in orders[u] of the face-edge of patch p around edge u.
PlaceOfPatch(u, p) ==
    CHOOSE k \in DOMAIN orders[u] : P[orders[u][k] % num_faces] = p
\* The (patch, side) pairs a table gives cell c.
PairsOf(tbl, c) == {ps \in PatchSides : tbl[ps[1]][ps[2]] = c}
\* The cells joined to cell c by a patch, in table tbl.
CellAdjacency(tbl, ids) ==
    [c \in ids |-> {d \in ids : \E p \in Patches :
                       {tbl[p][0], tbl[p][1]} = {c, d}}]
WedgeCells(tbl, n) ==
    /\ n = 3
    /\ \A p \in Patches : tbl[p][0] # tbl[p][1]
    /\ \A c \in 0..2 :
          /\ Cardinality(PairsOf(tbl, c)) = 2
          /\ \E a, b \in PairsOf(tbl, c) :
                /\ a[1] # b[1]
                /\ \E u \in NonManifoldEdges :
                      (PlaceOfPatch(u, a[1]) - PlaceOfPatch(u, b[1])) % 3 \in {1, 2}
    /\ \A c \in 0..2 : Closure({c}, CellAdjacency(tbl, 0..2)) = 0..2

\* C7: one non-manifold edge with three faces in three patches: exactly 3
\* cells, each on exactly two (patch, side) pairs of two cyclically adjacent
\* faces, each patch with two different cells, every cell reachable from
\* every other across the patches; for the raw and for the final ids.
C7_Wedge ==
    /\ (RawCellsReady /\ WedgeInput) => WedgeCells(raw_cells, num_raw_cells)
    /\ (PatchReturned /\ WedgeInput) => WedgeCells(per_patch_cells, num_cells)
\* A fan of three faces with mixed flags has returned.
C7_Witness ==
    /\ PatchReturned /\ WedgeInput /\ num_cells = 3
    /\ \E u \in NonManifoldEdges :
          orientations[u][0] # orientations[u][1]

\* The stored order of edge u reversed with every flag negated: the cache
\* of the same edge given in the other direction.
ReverseAt(ords, oris, u) ==
    LET v == Cardinality(DOMAIN ords[u])
    IN  [ords |-> [ords EXCEPT ![u] = [j \in 0..(v - 1) |-> ords[u][v - 1 - j]]],
         oris |-> [oris EXCEPT ![u] = [j \in 0..(v - 1) |-> ~oris[u][v - 1 - j]]]]
\* The stored order of edge u started k places later.
RotateAt(ords, oris, u, k) ==
    LET v == Cardinality(DOMAIN ords[u])
    IN  [ords |-> [ords EXCEPT ![u] = [j \in 0..(v - 1) |-> ords[u][(j + k) % v]]],
         oris |-> [oris EXCEPT ![u] = [j \in 0..(v - 1) |-> oris[u][(j + k) % v]]]]
\* The peel steps: the pairs << from, to >> of (patch, side) pairs.
PeelSteps(ords, oris) ==
    UNION {{<< ps, << StepIn(ords, oris, patch_edge_adj[ps[1]][k], ps[2]).patch,
                     StepIn(ords, oris, patch_edge_adj[ps[1]][k], ps[2]).side >> >> :
              k \in 1..Len(patch_edge_adj[ps[1]])} : ps \in PatchSides}
\* The (patch, side) pairs reached from those of S by the steps of E.
RECURSIVE Reach(_, _)
Reach(S, E) ==
    LET N == S \cup {e[2] : e \in {x \in E : x[1] \in S}}
    IN  IF N = S THEN S ELSE Reach(N, E)
\* The partition of the (patch, side) pairs a decomposition with this cache
\* makes: the classes of pairs connected by peel steps.
PeelPartition(ords, oris) ==
    LET E == PeelSteps(ords, oris)
    IN  {Reach({ps}, E) : ps \in PatchSides}
\* The partition of the (patch, side) pairs into the n cells of a table.
PartitionOf(tbl, n) == {PairsOf(tbl, c) : c \in 0..(n - 1)}
\* The n cells of table tbl are the partition made with the stored cache and
\* with the cache of any one non-manifold edge reversed and/or started
\* elsewhere.
SameForEveryCache(tbl, n) ==
    LET cls == PartitionOf(tbl, n)
    IN  /\ n = Cardinality(cls)
        /\ cls = PeelPartition(orders, orientations)
        /\ \A u \in NonManifoldEdges :
              \A k \in DOMAIN orders[u] :
                 LET rot == RotateAt(orders, orientations, u, k)
                     rev == ReverseAt(rot.ords, rot.oris, u)
                 IN  /\ PeelPartition(rot.ords, rot.oris) = cls
                     /\ PeelPartition(rev.ords, rev.oris) = cls

\* C8: the cells of a run are the classes of (patch, side) pairs connected
\* by peel steps, a function of the input alone, and these classes (hence
\* the cell count) are the same for the input in which one unique edge is
\* given in the other direction (flags negated, order reversed) and/or its
\* order starts elsewhere; for the raw cells, and for the final cells of a
\* one-component input.
C8_SamePartition ==
    /\ pc = "components" => SameForEveryCache(raw_cells, num_raw_cells)
    /\ (PatchReturned /\ num_components = 1) =>
          SameForEveryCache(per_patch_cells, num_cells)
\* A fan given with its edge as (d, s) and mixed flags has been peeled.
C8_Witness ==
    /\ PatchReturned /\ num_components = 1 /\ num_cells = 3
    /\ \E u \in NonManifoldEdges :
          /\ uE[u][1] > uE[u][2]
          /\ orientations[u][0] # orientations[u][1]
          /\ orders[u][0] > orders[u][1]

\* Unique edge u lists a face that has neither direction of uE[u].
Malformed(u) ==
    \E a \in 1..Len(uE2E[u]) :
       LET fid == uE2E[u][a] % num_faces
       IN  \A k \in 0..2 :
              {<< Fv(F, fid, k), Fv(F, fid, (k + 1) % 3) >>}
                 \cap {<< uE[u][1], uE[u][2] >>, << uE[u][2], uE[u][1] >>} = {}
\* The call has ended with the malformed-face failure, or has not yet
\* passed unique edge u.
StoppedAt(u) ==
    \/ pc = "throw" /\ failure = "Invalid face!" /\ i <= u
    \/ pc = "edges" /\ i <= u

\* C9 as stated: a malformed face on any unique edge, whatever the number
\* of faces on it, means no cell count is returned.
C9_Original == (\E u \in DOMAIN uE : Malformed(u)) => ~PatchReturned
\* C9, amended: a malformed face on a unique edge with more than two
\* incident faces ends the call with the malformed-face failure at that
\* edge at the latest; no cell count is returned.
C9_MalformedNonManifold ==
    \A u \in NonManifoldEdges : Malformed(u) => StoppedAt(u)
\* The call on a fan whose non-manifold edge is malformed has thrown.
C9_Witness ==
    /\ pc = "throw" /\ failure = "Invalid face!"
    /\ \E u \in NonManifoldEdges : Malformed(u) /\ i = u

\* The places of ambient_comps[c] whose component has one ambient
\* component fewer than c.
ParentPlaces(c) ==
    {j \in 1..Len(ambient_comps[c]) :
       Len(ambient_comps[ambient_comps[c][j]]) = Len(ambient_comps[c]) - 1}
\* The loop of lines 244-267 has passed component c.
Embedded(c) ==
    \/ pc \in {"compact", "distribute", "done"}
    \/ c < i /\ pc = "embed"
    \/ c < i /\ pc = "abort" /\ failure = "embedded_comp != INVALID"

\* C10 as stated: a component with k > 0 ambient components gets a parent
\* only if exactly one of them has k-1; with none or several the call fails,
\* so in a call that has returned every such component had exactly one.
C10_Original ==
    PatchReturned =>
       \A c \in 0..(num_components - 1) :
          Len(ambient_comps[c]) > 0 => Cardinality(ParentPlaces(c)) = 1
\* C10, what lines 253-262 do instead: the search breaks at the first
\* recorded ambient component that has k-1 ambient components and takes
\* the cell it recorded; the turn of the loop for a component fails
\* (assert) exactly when there is none, so several candidates are not
\* detected at that component.
C10_FirstParent ==
    /\ [](\A c \in DOMAIN ambient_comps :
            (Embedded(c) /\ Len(ambient_comps[c]) > 0) =>
               /\ ParentPlaces(c) # {}
               /\ \E j \in ParentPlaces(c) :
                     /\ \A j2 \in ParentPlaces(c) : j <= j2
                     /\ embedded_cells[outer_cells[c]] = ambient_cells[outer_cells[c]][j])
    /\ [][(pc = "embed" /\ i < num_components /\ Len(ambient_comps[i]) > 0) =>
            ((pc' = "abort" /\ failure' = "embedded_comp != INVALID")
               <=> ParentPlaces(i) = {})]_vars
\* The call has returned although component 3 had two candidates: it is
\* recorded in components 1 and 2, each recorded in component 0 alone, and
\* the cell recorded by component 1 was taken, which is not the cell
\* recorded by component 2.
C10_Witness ==
    /\ PatchReturned /\ mesh = "fourtet"
    /\ ambient_comps[3] = << 1, 2 >>
    /\ ambient_comps[1] = << 0 >> /\ ambient_comps[2] = << 0 >>
    /\ embedded_cells[outer_cells[3]] = ambient_cells[outer_cells[3]][1]
    /\ ambient_cells[outer_cells[3]][1] # ambient_cells[outer_cells[3]][2]

\* The call has ended in a fatal condition.
Failed == pc \in {"throw", "abort"}

\* C11: when the call ends in a fatal condition the caller's tables are as
\* they were before the call and no cell count has been returned, for both
\* overloads.
C11_NoPartialOutput ==
    Failed => /\ per_patch_cells = Untouched /\ num_cells = 0
              /\ cells = Untouched /\ ret = 0
\* The face-level call failed in the nesting resolver, after the peeler
\* had labelled every patch of the local table.
C11_Witness ==
    /\ pc = "abort" /\ entry = "faces" /\ num_raw_cells > 2
    /\ \A p \in Patches : raw_cells[p][0] # INVALID /\ raw_cells[p][1] # INVALID
    /\ cells = Untouched /\ per_patch_cells = Untouched

\* The label of the (patch, side) the peeler is about to step to.
NextLabel ==
    LET st == Step(patch_edge_adj[cur[1]][ek], cur[2])
    IN  raw_cells[st.patch][st.side]
\* Every stored order is a permutation of the occurrences of its edge.
OrdersArePermutations ==
    \A u \in DOMAIN orders :
       orders[u] # << >> =>
          /\ {orders[u][k] : k \in DOMAIN orders[u]} = Range(uE2E[u])
          /\ Cardinality(DOMAIN orders[u]) = Len(uE2E[u])

\* C12: whenever the peeler is about to step to a (patch, side), that pair
\* is unlabelled or carries the id of the running peel, and the call never
\* ends with the cell-assignment-inconsistency failure; the stored orders
\* are permutations and the flags take every combination.
C12_NoInconsistency ==
    /\ OrdersArePermutations
    /\ failure # "Encountered cell assignment inconsistency"
    /\ (pc = "peel" /\ ~Exhausted) => NextLabel \in {INVALID, cell_idx}
\* A later peel (id > 0) steps across an edge with mixed flags to a pair
\* that is labelled already.
C12_Witness ==
    /\ pc = "peel" /\ ~Exhausted /\ cell_idx > 0
    /\ NextLabel = cell_idx
    /\ \E u \in NonManifoldEdges :
          \E a, b \in DOMAIN orientations[u] : orientations[u][a] # orientations[u][b]

\* The occurrence the peeler is at: its edge, place, flag, and the place and
\* flag of the neighbour it steps to.
AtOccurrence ==
    LET ei == patch_edge_adj[cur[1]][ek]
        u == EMAP[ei]
        v == Cardinality(DOMAIN orders[u])
        curr_i == FindPlace(orders[u], ei)
        next == NextPlace(curr_i, cur[2], orientations[u][curr_i], v)
    IN  [u |-> u, v |-> v, place |-> curr_i, cons |-> orientations[u][curr_i],
         next |-> next, next_cons |-> orientations[u][next],
         next_patch |-> P[orders[u][next] % num_faces]]
\* This step of the peeler labels a pair that was unlabelled.
LabelsNewPair == pc = "peel" /\ ~Exhausted /\ raw_cells' # raw_cells
\* The step writes the running id on side sd of the neighbour's patch, and
\* nowhere else.
WritesSide(sd) ==
    /\ raw_cells[AtOccurrence.next_patch][sd] = INVALID
    /\ raw_cells' = [raw_cells EXCEPT ![AtOccurrence.next_patch][sd] = cell_idx]

\* C13 as stated: the neighbour's patch receives the id on side s when the
\* two flags are equal and on side 1-s when they differ.
C13_Original ==
    [][LabelsNewPair =>
         WritesSide(IF AtOccurrence.next_cons = AtOccurrence.cons
                    THEN cur[2] ELSE 1 - cur[2])]_vars
\* C13, amended: the neighbour's patch receives the id on side s when the
\* two flags differ and on side 1-s when they are equal.
C13_SideRule ==
    [][LabelsNewPair =>
         WritesSide(IF AtOccurrence.next_cons # AtOccurrence.cons
                    THEN cur[2] ELSE 1 - cur[2])]_vars
\* The first face-edge of the popped pair led, between two equal flags, to
\* the opposite side of another patch, which was labelled and queued.
C13_Witness ==
    /\ pc = "peel" /\ cur # NoEntry /\ ek = 2 /\ Q # << >>
    /\ LET ei == patch_edge_adj[cur[1]][1]
           u == EMAP[ei]
           st == Step(ei, cur[2])
       IN  /\ orientations[u][st.curr_i] = orientations[u][st.next]
           /\ Q[Len(Q)] = << st.patch, 1 - cur[2] >>
           /\ st.patch # cur[1]
           /\ raw_cells[st.patch][1 - cur[2]] = cell_idx
           /\ raw_cells[st.patch][cur[2]] # cell_idx

\* The non-manifold edges whose order and flags are stored already.
CachedEdges == {u \in NonManifoldEdges : orders[u] # << >>}
\* The place C14 gives for the step from place k of edge u on side sd.
PlaceAfter(u, k, sd) ==
    LET v == Cardinality(DOMAIN orders[u])
    IN  IF (sd = 0 /\ orientations[u][k]) \/ (sd = 1 /\ ~orientations[u][k])
        THEN (k + 1) % v
        ELSE (k + v - 1) % v

\* C14: around every cached edge (valence v > 2) the step from place k goes
\* to (k+1) mod v exactly when side = 0 and the flag is true or side = 1
\* and the flag is false, else to (k-1) mod v; the two sides of a place step
\* to different places, and the step from the reached (occurrence, side)
\* comes back to the starting (occurrence, side).
C14_PlaceRule ==
    \A u \in CachedEdges : \A k \in DOMAIN orders[u] :
       /\ Cardinality(DOMAIN orders[u]) > 2
       /\ Step(orders[u][k], 0).next # Step(orders[u][k], 1).next
       /\ \A sd \in Sides :
             LET st == Step(orders[u][k], sd)
                 back == Step(st.ei, st.side)
             IN  /\ st.curr_i = k
                 /\ st.next = PlaceAfter(u, k, sd)
                 /\ st.ei = orders[u][st.next]
                 /\ back.ei = orders[u][k] /\ back.side = sd
                 /\ back.next = k
\* From side 1 of an occurrence with a false flag the peeler went to the
\* following place, whose pair was labelled and queued.
C14_Witness ==
    /\ pc = "peel" /\ cur # NoEntry /\ ek = 2 /\ cur[2] = 1 /\ Q # << >>
    /\ LET ei == patch_edge_adj[cur[1]][1]
           u == EMAP[ei]
           st == Step(ei, 1)
       IN  /\ ~orientations[u][st.curr_i]
           /\ st.next = (st.curr_i + 1) % Cardinality(DOMAIN orders[u])
           /\ Q[Len(Q)] = << st.patch, st.side >>

\* Face fid has a followed by b among its three cyclic vertex pairs.
FaceHasPair(fid, a, b) ==
    \E k \in 0..2 : Fv(F, fid, k) = a /\ Fv(F, fid, (k + 1) % 3) = b
\* The tag handed to the ordering collaborator for the a-th occurrence of
\* edge u, and the flag stored for that occurrence.
TagOf(u, a) == signed_adj_faces(u)[a - 1]
FlagOf(u, a) ==
    orientations[u][CHOOSE k \in DOMAIN orders[u] : orders[u][k] = uE2E[u][a]]

\* C15 as stated: the tag is +(f+1) exactly when f has s -> d and -(f+1)
\* when it has d -> s; the flag is true exactly when the tag is positive.
C15_Original ==
    \A u \in CachedEdges : \A a \in 1..Len(uE2E[u]) :
       LET f == uE2E[u][a] % num_faces
       IN  /\ FaceHasPair(f, uE[u][1], uE[u][2]) => TagOf(u, a) = f + 1
           /\ FaceHasPair(f, uE[u][2], uE[u][1]) => TagOf(u, a) = 0 - (f + 1)
           /\ FlagOf(u, a) <=> TagOf(u, a) > 0
\* C15, amended: the tag is +(f+1) exactly when f has d -> s (the reverse
\* of the canonical direction) and -(f+1) when it has s -> d; the flag is
\* true exactly when the tag is positive.
C15_SignedTag ==
    \A u \in CachedEdges : \A a \in 1..Len(uE2E[u]) :
       LET f == uE2E[u][a] % num_faces
       IN  /\ FaceHasPair(f, uE[u][2], uE[u][1]) <=> TagOf(u, a) = f + 1
           /\ FaceHasPair(f, uE[u][1], uE[u][2]) <=> TagOf(u, a) = 0 - (f + 1)
           /\ TagOf(u, a) \in {f + 1, 0 - (f + 1)}
           /\ FlagOf(u, a) <=> TagOf(u, a) > 0
           /\ FlagOf(u, a) <=> FaceHasPair(f, uE[u][2], uE[u][1])
\* An edge given as (d, s) of the sorted pair is cached with one face that
\* has s -> d (flag false) and one that has d -> s (flag true).
C15_Witness ==
    /\ pc = "scan"
    /\ \E u \in CachedEdges :
          /\ uE[u][1] > uE[u][2]
          /\ \E a, b \in 1..Len(uE2E[u]) :
                /\ FaceHasPair(uE2E[u][a] % num_faces, uE[u][1], uE[u][2])
                /\ ~FlagOf(u, a) /\ TagOf(u, a) < 0
                /\ FaceHasPair(uE2E[u][b] % num_faces, uE[u][2], uE[u][1])
                /\ FlagOf(u, b) /\ TagOf(u, b) > 0

\* The single-component peeler is no longer running: it has returned its
\* count or the call has ended in a failure.
PeelerEnded == pc \notin {"edges", "scan", "peel"}
\* Every (patch, side) carries an id below n, and every id below n is used.
AllLabelled(n) ==
    /\ \A ps \in PatchSides : raw_cells[ps[1]][ps[2]] \in 0..(n - 1)
    /\ {raw_cells[ps[1]][ps[2]] : ps \in PatchSides} = 0..(n - 1)

\* C16: the peeler always terminates; when it returns, every (patch, side)
\* carries an id in [0, count) and none is unlabelled; a peel is seeded with
\* the current count, which no pair carries yet, and count grows by one
\* when the peel ends, so every id in [0, count) seeded exactly one peel.
C16_PeelerTerminates ==
    /\ <>PeelerEnded
    /\ [](pc = "components" => num_raw_cells = count /\ AllLabelled(count))
    /\ [][(pc = "scan" /\ pc' = "peel") =>
            /\ cell_idx' = count /\ count' = count
            /\ \A ps \in PatchSides : raw_cells[ps[1]][ps[2]] \in {INVALID} \cup 0..(count - 1)
            /\ \E ps \in PatchSides : raw_cells' = [raw_cells EXCEPT ![ps[1]][ps[2]] = count]]_vars
    /\ [][(pc = "peel" /\ pc' = "scan") => count' = count + 1]_vars
\* The peeler has returned 3 cells for the two glued tetrahedra.
C16_Witness ==
    /\ pc = "components" /\ mesh = "theta"
    /\ num_raw_cells = 3 /\ AllLabelled(3)

\* The single-component peeler is scanning or peeling.
Peeling == pc \in {"scan", "peel"}
\* This step pushes a pair on the work queue.
Pushes == Peeling /\ Len(Q') > Len(Q)

\* C17: while the peeler runs, a label once written is never changed; a
\* pair is pushed exactly when its label is written (it was unlabelled and
\* gets the id of the running peel), hence at most once over the run; every
\* pair in the queue, and the popped pair, carries the id of the running
\* peel, and no pair is in the queue twice.
C17_LabelOnce ==
    /\ [][Peeling =>
            \A ps \in PatchSides :
               raw_cells[ps[1]][ps[2]] # INVALID =>
                  raw_cells'[ps[1]][ps[2]] = raw_cells[ps[1]][ps[2]]]_vars
    /\ [][Pushes =>
            LET ps == Q'[Len(Q')]
            IN  /\ Len(Q') = Len(Q) + 1
                /\ raw_cells[ps[1]][ps[2]] = INVALID
                /\ raw_cells'[ps[1]][ps[2]] = cell_idx']_vars
    /\ [][(Peeling /\ raw_cells' # raw_cells) => Pushes]_vars
    /\ [](pc = "peel" =>
            /\ \A k \in 1..Len(Q) : raw_cells[Q[k][1]][Q[k][2]] = cell_idx
            /\ \A k, l \in 1..Len(Q) : Q[k] = Q[l] => k = l
            /\ cur # NoEntry => raw_cells[cur[1]][cur[2]] = cell_idx)
\* Two different pairs wait in the queue, both labelled with the id of the
\* running peel, while a third, popped, pair is being visited.
C17_Witness ==
    /\ pc = "peel" /\ Len(Q) = 2 /\ Q[1] # Q[2]
    /\ cur # NoEntry /\ cur # Q[1] /\ cur # Q[2]
    /\ raw_cells[cur[1]][cur[2]] = cell_idx
    /\ raw_cells[Q[1][1]][Q[1][2]] = cell_idx
    /\ raw_cells[Q[2][1]][Q[2][2]] = cell_idx

\* The connected component of the faces of patch p: from the input while
\* the peeler runs, from C once facet_components has answered.
InputComponentOf(p) ==
    FacetComponents(num_faces, uE2E)[SetMin({f \in DOMAIN P : P[f] = p})]
ComponentOf(p) == C[SetMin({f \in DOMAIN P : P[f] = p})]
\* The components are known and the table still holds the raw ids.
ComponentsKnown == pc \in {"outer", "nest", "embed"}

\* C18: a peel labels only pairs of the component of the pair it is at,
\* so no raw id is shared by patches of two components; the outer cells of
\* different components are different raw ids; and once the relationships
\* are recorded, every component has as many ambient components as its
\* outer cell has ambient cells (the size assertion never fails).
C18_PeelStaysInComponent ==
    /\ [][LabelsNewPair =>
            \A ps \in PatchSides :
               raw_cells'[ps[1]][ps[2]] # raw_cells[ps[1]][ps[2]] =>
                  InputComponentOf(ps[1]) = InputComponentOf(cur[1])]_vars
    /\ [](ComponentsKnown =>
            /\ \A ps, qt \in PatchSides :
                  raw_cells[ps[1]][ps[2]] = raw_cells[qt[1]][qt[2]] =>
                     ComponentOf(ps[1]) = ComponentOf(qt[1])
            /\ \A a, b \in DOMAIN outer_cells :
                  a # b => outer_cells[a] # outer_cells[b])
    /\ [](pc = "embed" =>
            \A c \in DOMAIN ambient_comps :
               Len(ambient_comps[c]) = Len(ambient_cells[outer_cells[c]]))
    /\ [](failure # "num_ambient_comps == ambient_cells_i.size()")
\* Two components, one with a non-manifold edge whose peel labelled several
\* pairs with one id, and a recorded ambient relationship between them.
C18_Witness ==
    /\ pc = "embed" /\ num_components = 2 /\ NonManifoldEdges # {}
    /\ \E ps, qt \in PatchSides :
          /\ ps[1] # qt[1] /\ raw_cells[ps[1]][ps[2]] = raw_cells[qt[1]][qt[2]]
    /\ \E c \in DOMAIN ambient_comps : Len(ambient_comps[c]) = 1

\* The components whose outer cell is raw cell c.
OuterOf(c) == {k \in DOMAIN outer_cells : outer_cells[k] = c}
\* The raw cell that component k's outer cell is resolved to: the infinite
\* sentinel, or the cell recorded by its first ambient component that has
\* one ambient component fewer.
ResolvedParent(k) ==
    IF Len(ambient_comps[k]) = 0 THEN num_raw_cells
    ELSE ambient_cells[outer_cells[k]][SetMin(ParentPlaces(k))]

\* C19: the rewrite pass replaces every entry that is the outer cell of a
\* component by that component's resolved parent (the infinite sentinel for
\* a component without ambient relationships) and leaves every other entry
\* as it was; no entry of the rewritten table is an outer cell, so nothing
\* written would be rewritten again.
C19_RewriteOnce ==
    /\ [][(pc = "embed" /\ pc' = "compact") =>
            \A ps \in PatchSides :
               LET old == raw_cells[ps[1]][ps[2]]
                   new == raw_cells'[ps[1]][ps[2]]
               IN  IF OuterOf(old) = {} THEN new = old
                   ELSE /\ \A k \in OuterOf(old) : new = ResolvedParent(k)
                        /\ new = embedded_cells[old]
                        /\ new # old]_vars
    /\ [](pc = "compact" =>
            \A ps \in PatchSides : OuterOf(raw_cells[ps[1]][ps[2]]) = {})
\* After the pass the outer side of a component without ambient
\* relationships holds the sentinel, and the outer side of a nested
\* component holds the raw cell recorded for it, which is no sentinel.
C19_Witness ==
    /\ pc = "compact"
    /\ \E k, l \in DOMAIN outer_cells :
          /\ Len(ambient_comps[k]) = 0 /\ Len(ambient_comps[l]) = 2
          /\ raw_cells[P[outer_facets[k]]][outer_facet_orientation[k]] = num_raw_cells
          /\ raw_cells[P[outer_facets[l]]][outer_facet_orientation[l]] = ResolvedParent(l)
          /\ ResolvedParent(l) < num_raw_cells

\* The place of a (patch, side) in the scan "patches in increasing index,
\* side 0 before side 1", and the first place at which id c stands.
ScanPlace(ps) == 2 * ps[1] + ps[2]
FirstSeen(tbl, c) == SetMin({ScanPlace(ps) : ps \in PairsOf(tbl, c)})
\* The ids of a table other than the sentinel.
FiniteIds(tbl) ==
    {tbl[ps[1]][ps[2]] : ps \in PatchSides} \ {num_raw_cells}
\* The rank of id c among the ids other than the sentinel, by first place.
SeenRank(tbl, c) ==
    1 + Cardinality({d \in FiniteIds(tbl) : FirstSeen(tbl, d) < FirstSeen(tbl, c)})

\* C20: the compactor gives two entries the same final id exactly when
\* they held the same id before; the sentinel becomes 0; and the k-th
\* different id other than the sentinel met in the scan becomes k.
C20_CompactFirstSeen ==
    [][pc = "compact" =>
         /\ \A ps, qt \in PatchSides :
               (raw_cells'[ps[1]][ps[2]] = raw_cells'[qt[1]][qt[2]])
                  <=> (raw_cells[ps[1]][ps[2]] = raw_cells[qt[1]][qt[2]])
         /\ \A ps \in PatchSides :
               LET old == raw_cells[ps[1]][ps[2]]
                   new == raw_cells'[ps[1]][ps[2]]
               IN  /\ (old = num_raw_cells) <=> (new = 0)
                   /\ old # num_raw_cells => new = SeenRank(raw_cells, old)
                   /\ mapped_indices'[old] = new
         /\ mapped_indices'[num_raw_cells] = 0
         /\ per_patch_cells' = raw_cells']_vars
\* A compaction that did not keep the order of the ids: a larger raw id was
\* met first and got the smaller final id, and the raw ids of the outer
\* cells, rewritten before, got no final id.
C20_Witness ==
    /\ PatchReturned /\ num_cells >= 4
    /\ mapped_indices[num_raw_cells] = 0
    /\ \E a, b \in 0..(num_raw_cells - 1) :
          /\ a < b /\ mapped_indices[b] >= 1
          /\ mapped_indices[a] # INVALID_SZ /\ mapped_indices[a] > mapped_indices[b]
    /\ \E c \in 0..(num_raw_cells - 1) : mapped_indices[c] = INVALID_SZ

\* The patches and the raw cells of component k, and the crossings of the
\* patches of k: the pairs << c, d >> of raw cells on the two sides of one
\* patch, in both directions.
PatchesOfComponent(k) == {p \in Patches : ComponentOf(p) = k}
RawCellsOfComponent(k) ==
    {raw_cells[p][sd] : p \in PatchesOfComponent(k), sd \in Sides}
Crossings(k) ==
    UNION {{<< raw_cells[p][0], raw_cells[p][1] >>,
            << raw_cells[p][1], raw_cells[p][0] >>} : p \in PatchesOfComponent(k)}
\* The least number of patches to cross from raw cell c to raw cell d.
RECURSIVE CrossingsBetween(_, _, _, _)
CrossingsBetween(S, d, E, n) ==
    IF d \in S THEN n
    ELSE CrossingsBetween(S \cup {e[2] : e \in {x \in E : x[1] \in S}}, d, E, n + 1)

\* C21: once the peeler has returned and the components are known, in
\* every component the raw cells joined by the two sides of each patch of
\* the component form a connected graph: the outer cell is a raw cell of
\* its component and every raw cell of the component is reached from it,
\* and from every other raw cell of the component, by crossing patches of
\* the component.
C21_CellGraphConnected ==
    ComponentsKnown =>
       \A k \in 0..(num_components - 1) :
          /\ \A c \in RawCellsOfComponent(k) :
                Reach({c}, Crossings(k)) = RawCellsOfComponent(k)
          /\ k \in DOMAIN outer_cells =>
                /\ outer_cells[k] \in RawCellsOfComponent(k)
                /\ Reach({outer_cells[k]}, Crossings(k)) = RawCellsOfComponent(k)
\* Two components, one of several patches around a non-manifold edge: its
\* outer cell is one crossing away from another raw cell of the component,
\* and no crossing of any patch leads from it to a raw cell of the other
\* component.
C21_Witness ==
    /\ pc = "embed" /\ num_components = 2 /\ NonManifoldEdges # {}
    /\ \E k \in DOMAIN outer_cells :
          /\ Cardinality(PatchesOfComponent(k)) >= 2
          /\ \E c \in RawCellsOfComponent(k) :
                CrossingsBetween({outer_cells[k]}, c, Crossings(k), 0) = 1
          /\ Reach({outer_cells[k]}, Crossings(0) \cup Crossings(1))
                = RawCellsOfComponent(k)
          /\ RawCellsOfComponent(1 - k) \cap RawCellsOfComponent(k) = {}

\* The raw ids that are the outer cell of some component.
OuterRawCells == Range(outer_cells)
\* The raw ids the peeler returned.
RawIds == 0..(num_raw_cells - 1)

\* C22: when the per-patch extract_cells has returned (closest_facet having
\* answered with faces of the queried component), the returned count is the
\* number of raw cells minus the number of components plus one: the outer
\* raw cell of every component got no final id, every other raw cell got a
\* final id of its own in [1, count), and the infinite cell got id 0.
C22_CountFormula ==
    PatchReturned =>
       /\ num_cells = num_raw_cells - num_components + 1
       /\ Cardinality(OuterRawCells) = num_components
       /\ \A c \in OuterRawCells : mapped_indices[c] = INVALID_SZ
       /\ \A c \in RawIds \ OuterRawCells : mapped_indices[c] \in 1..(num_cells - 1)
       /\ \A c, d \in RawIds \ OuterRawCells :
             mapped_indices[c] = mapped_indices[d] => c = d
       /\ mapped_indices[INFINITE_CELL] = 0
\* A run with three components that has returned: one component lies in a
\* cell of another, one in the infinite cell only, and some component has
\* raw cells besides its outer cell and one inner cell.
C22_Witness ==
    /\ PatchReturned /\ num_components >= 3
    /\ num_cells = num_raw_cells - num_components + 1
    /\ \E k, l \in DOMAIN outer_cells :
          /\ embedded_cells[outer_cells[k]] = INFINITE_CELL
          /\ embedded_cells[outer_cells[l]] \in RawIds \ OuterRawCells
    /\ closest_queries # {}

Init ==
    /\ \E inp \in Inputs :
          /\ mesh = inp.mesh /\ entry = inp.entry
          /\ F = inp.F /\ V = inp.V /\ P = inp.P
          /\ uE = inp.uE /\ uE2E = inp.uE2E /\ EMAP = inp.EMAP
          /\ orders = [u \in DOMAIN inp.uE |-> << >>]
          /\ orientations = [u \in DOMAIN inp.uE |-> << >>]
          /\ patch_edge_adj = [p \in 0..SetMax(Range(inp.P)) |-> << >>]
    /\ pc = "edges" /\ failure = "none"
    /\ i = 0 /\ seed_side = 0
    /\ raw_cells = << >> /\ count = 0 /\ num_raw_cells = 0
    /\ Q = << >> /\ cur = NoEntry /\ ek = 1 /\ cell_idx = 0
    /\ C = << >> /\ outer_facets = << >> /\ outer_facet_orientation = << >>
    /\ outer_cells = << >>
    /\ nested_cells = << >> /\ ambient_cells = << >> /\ ambient_comps = << >>
    /\ bbox_min = << >> /\ bbox_max = << >>
    /\ closest_queries = {}
    /\ embedded_cells = << >> /\ mapped_indices = << >>
    /\ per_patch_cells = Untouched /\ num_cells = 0
    /\ cells = Untouched /\ ret = 0

Next ==
    \/ SkipManifoldEdge \/ ThrowInvalidFace \/ OrderEdge \/ StartScan
    \/ Seed \/ ScanLabeled \/ Pop \/ Visit \/ PeelDone \/ PeelerReturns
    \/ Components \/ OuterFacet \/ StartNesting
    \/ NoCandidates \/ QueryCandidates \/ NestingDone
    \/ EmbedComponent \/ Rewrite \/ Compact \/ Distribute

Spec == Init /\ [][Next]_vars
\* The steps of extract_cells_single_component.
PeelerStep ==
    \/ SkipManifoldEdge \/ ThrowInvalidFace \/ OrderEdge \/ StartScan
    \/ Seed \/ ScanLabeled \/ Pop \/ Visit \/ PeelDone \/ PeelerReturns
\* The call runs on one thread without suspension points: a step of the
\* peeler that can be taken is taken.
FairSpec == Spec /\ WF_vars(PeelerStep)
====
